---- MODULE Spec2Model ----
(***************************************************************************)
(* The CBOR-to-JSON stream decoder of internal/cbor/decode_stream.go.      *)
(*                                                                         *)
(* A byte is a number in 0..255 and every text (input, sink, returned      *)
(* value) is a sequence of bytes.  A Go int64 / int is a sequence of 8     *)
(* bytes, big-endian two's complement (a "word"), so that the arithmetic   *)
(* of the decoder keeps its 64-bit width.  A panic is a fault record that  *)
(* the decoders hand back; kind is the dynamic type of the panic value     *)
(* ("error" for fmt.Errorf / io.EOF, "runtime" for a runtime.Error).       *)
(***************************************************************************)
EXTENDS Integers, Sequences, FiniteSets, TLC

(***************************************************************************)
(* Wire constants of the package (cbor.go, not part of the decoder file).  *)
(***************************************************************************)
majorTypeUnsignedInt == 0
majorTypeNegativeInt == 32
majorTypeByteString == 64
majorTypeUtf8String == 96
majorTypeArray == 128
majorTypeMap == 160
majorTypeTags == 192
majorTypeSimpleAndFloat == 224
maskOutMajorType == 31

additionalTypeBoolFalse == 20
additionalTypeBoolTrue == 21
additionalTypeNull == 22
additionalTypeIntUint8 == 24
additionalTypeIntUint16 == 25
additionalTypeIntUint32 == 26
additionalTypeIntUint64 == 27
additionalTypeFloat16 == 25
additionalTypeFloat32 == 26
additionalTypeFloat64 == 27
additionalTypeBreak == 31
additionalTypeInfiniteCount == 31
additionalTypeTimestamp == 1
additionalTypeTagNetworkAddr == 260
additionalTypeTagNetworkPrefix == 261
additionalTypeEmbeddedJSON == 262
additionalTypeTagHexString == 263

isFloat32 == 4
isFloat64 == 8

\* pb & maskOutAdditionalType and pb & maskOutMajorType
MajorOf(pb) == (pb \div (maskOutMajorType + 1)) * (maskOutMajorType + 1)
MinorOf(pb) == pb % (maskOutMajorType + 1)

\* majorTypeSimpleAndFloat | additionalTypeBreak
BreakByte == majorTypeSimpleAndFloat + additionalTypeBreak

\* hexTable[k]
hexTable(k) == IF k < 10 THEN 48 + k ELSE 87 + k

(***************************************************************************)
(* Sequences of bytes.                                                     *)
(***************************************************************************)
RECURSIVE Flatten(_)
Flatten(ss) == IF ss = <<>> THEN <<>> ELSE Head(ss) \o Flatten(Tail(ss))

IsPrefix(s, t) == Len(s) <= Len(t) /\ SubSeq(t, 1, Len(s)) = s

\* s[from:] with a 0-based from, as Go slices it
From(s, from) == SubSeq(s, from + 1, Len(s))

(***************************************************************************)
(* 64-bit words.                                                           *)
(***************************************************************************)
\* int64(k) for a small k >= 0
W64(k) == << 0, 0, 0, 0, (k \div 16777216) % 256, (k \div 65536) % 256,
             (k \div 256) % 256, k % 256 >>

IsNeg(w) == w[1] >= 128

\* the word is a value in 0 .. 2^31-1
IsSmall(w) == w[1] = 0 /\ w[2] = 0 /\ w[3] = 0 /\ w[4] = 0 /\ w[5] < 128

SmallVal(w) == w[5] * 16777216 + w[6] * 65536 + w[7] * 256 + w[8]

\* i < w for a small counter i >= 0 and a signed word w
LessThanWord(i, w) == ~IsNeg(w) /\ (~IsSmall(w) \/ i < SmallVal(w))

\* val = val * 256; val += int64(b): the top byte falls off (int64 wraps)
ShiftIn(w, b) == Tail(w) \o <<b>>

\* -1 - val computed in 32 bits and sign-extended
MinusOneMinus32(w) == << 255, 255, 255, 255,
                         255 - w[5], 255 - w[6], 255 - w[7], 255 - w[8] >>

\* -1 - val, which in two's complement is the bitwise complement
MinusOneMinus(w) == << 255 - w[1], 255 - w[2], 255 - w[3], 255 - w[4],
                       255 - w[5], 255 - w[6], 255 - w[7], 255 - w[8] >>

\* the unsigned magnitude of a signed word: w, or -w = ~w + 1 when w < 0
RECURSIVE AddOne(_)
AddOne(w) ==
    IF w = <<>> THEN <<>>
    ELSE IF w[Len(w)] < 255 THEN SubSeq(w, 1, Len(w) - 1) \o <<w[Len(w)] + 1>>
    ELSE AddOne(SubSeq(w, 1, Len(w) - 1)) \o <<0>>

Magnitude(w) == IF IsNeg(w) THEN AddOne(MinusOneMinus(w)) ELSE w

\* long division of a big-endian byte string by 10: quotient and remainder
RECURSIVE DivTen(_, _)
DivTen(w, carry) ==
    IF w = <<>> THEN [q |-> <<>>, r |-> carry]
    ELSE LET cur == carry * 256 + Head(w)
             rest == DivTen(Tail(w), cur % 10)
         IN [q |-> <<cur \div 10>> \o rest.q, r |-> rest.r]

IsZero(w) == \A k \in 1..Len(w) : w[k] = 0

\* the decimal digits of an unsigned word, most significant first
RECURSIVE Digits(_)
Digits(w) ==
    LET d == DivTen(w, 0)
    IN IF IsZero(d.q) THEN <<48 + d.r>> ELSE Digits(d.q) \o <<48 + d.r>>

\* strconv.Itoa(int(n)) with a 64-bit int
Itoa(w) == IF IsNeg(w) THEN <<45>> \o Digits(Magnitude(w)) ELSE Digits(w)

(***************************************************************************)
(* Faults (panic values).                                                  *)
(***************************************************************************)
NoFault == [kind |-> "none", what |-> "none"]
Errorf(what) == [kind |-> "error", what |-> what]
RuntimeError(what) == [kind |-> "runtime", what |-> what]

(***************************************************************************)
(* The byte cursor: a bufio.Reader over the input.  r is the number of     *)
(* bytes consumed, lastByte the byte UnreadByte can push back (-1: none).  *)
(***************************************************************************)
NoReader ==
    [buf |-> <<>>, r |-> 0, lastByte |-> -1, made |-> FALSE, unreadErr |-> FALSE]

NewReader(p) ==
    [buf |-> p, r |-> 0, lastByte |-> -1, made |-> TRUE, unreadErr |-> FALSE]

Buffered(src) == Len(src.buf) - src.r

ReadByte(src) ==
    IF src.r < Len(src.buf)
    THEN [e |-> FALSE, b |-> src.buf[src.r + 1],
          src |-> [src EXCEPT !.r = @ + 1, !.lastByte = src.buf[src.r + 1]]]
    ELSE [e |-> TRUE, b |-> 0, src |-> src]

Peek(src) ==
    IF src.r < Len(src.buf)
    THEN [e |-> FALSE, b |-> src.buf[src.r + 1], src |-> [src EXCEPT !.lastByte = -1]]
    ELSE [e |-> TRUE, b |-> 0, src |-> [src EXCEPT !.lastByte = -1]]

\* an un-read that reports success and leaves the cursor where it is
UnreadByteStays(src) ==
    [e |-> FALSE, src |-> [src EXCEPT !.lastByte = -1]]

\* unreadErr: an UnreadByte of this cursor returned bufio.ErrInvalidUnreadByte
UnreadByte(src) ==
    IF src.lastByte < 0 \/ src.r = 0
    THEN [e |-> TRUE, src |-> [src EXCEPT !.unreadErr = TRUE]]
    ELSE [e |-> FALSE, src |-> [src EXCEPT !.r = @ - 1, !.lastByte = -1]]

(***************************************************************************)
(* Primitive decoders.  Each returns the cursor it leaves, the fault it    *)
(* raised (NoFault: it returned) and its value.                            *)
(***************************************************************************)
\* make([]byte, n) panics for a negative n and for an n above the largest
\* allocation (2^48 bytes on the 64-bit targets): a runtime.Error
MakeslicePanics(n) ==
    \/ IsNeg(n)
    \/ n[1] > 0
    \/ n[2] > 1
    \/ n[2] = 1 /\ \E k \in 3..8 : n[k] > 0

readNBytes(src, n) ==
    IF MakeslicePanics(n)
    THEN [fault |-> RuntimeError("makeslice"), src |-> src, pb |-> <<>>]
    ELSE IF LessThanWord(Buffered(src), n)
    THEN [fault |-> Errorf("eof"), pb |-> <<>>,
          src |-> [src EXCEPT !.r = Len(src.buf),
                              !.lastByte = IF Buffered(src) > 0
                                           THEN src.buf[Len(src.buf)] ELSE @]]
    ELSE LET k == SmallVal(n)
         IN [fault |-> NoFault, pb |-> SubSeq(src.buf, src.r + 1, src.r + k),
             src |-> [src EXCEPT !.r = @ + k,
                                 !.lastByte = IF k > 0 THEN src.buf[src.r + k] ELSE @]]

readByte(src) ==
    LET x == ReadByte(src)
    IN IF x.e THEN [fault |-> Errorf("eof"), src |-> x.src, b |-> 0]
       ELSE [fault |-> NoFault, src |-> x.src, b |-> x.b]

RECURSIVE Accumulate(_, _)
Accumulate(val, pb) ==
    IF pb = <<>> THEN val ELSE Accumulate(ShiftIn(val, Head(pb)), Tail(pb))

decodeIntAdditionalType(src, minor) ==
    IF minor <= 23
    THEN [fault |-> NoFault, src |-> src, val |-> W64(minor)]
    ELSE IF minor \notin {additionalTypeIntUint8, additionalTypeIntUint16,
                          additionalTypeIntUint32, additionalTypeIntUint64}
    THEN [fault |-> Errorf("additional type"), src |-> src, val |-> W64(0)]
    ELSE LET bytesToRead == CASE minor = additionalTypeIntUint8 -> 1
                              [] minor = additionalTypeIntUint16 -> 2
                              [] minor = additionalTypeIntUint32 -> 4
                              [] minor = additionalTypeIntUint64 -> 8
             rd == readNBytes(src, W64(bytesToRead))
         IN IF rd.fault # NoFault
            THEN [fault |-> rd.fault, src |-> rd.src, val |-> W64(0)]
            ELSE [fault |-> NoFault, src |-> rd.src, val |-> Accumulate(W64(0), rd.pb)]

decodeInteger(src) ==
    LET rb == readByte(src)
        major == MajorOf(rb.b)
        minor == MinorOf(rb.b)
    IN IF rb.fault # NoFault
       THEN [fault |-> rb.fault, src |-> rb.src, val |-> W64(0)]
       ELSE IF major # majorTypeUnsignedInt /\ major # majorTypeNegativeInt
       THEN [fault |-> Errorf("major type"), src |-> rb.src, val |-> W64(0)]
       ELSE LET d == decodeIntAdditionalType(rb.src, minor)
            IN IF d.fault # NoFault THEN d
               ELSE IF major = 0 THEN d
               ELSE [d EXCEPT !.val = MinusOneMinus(d.val)]

(***************************************************************************)
(* utf8.DecodeRuneInString(s[i:]) as far as the escaper reads it: whether  *)
(* it returned (RuneError, 1) and the size.  i is 0-based.                 *)
(***************************************************************************)
IsCont(b) == b >= 128 /\ b <= 191

RuneLen(s0) ==
    IF s0 >= 194 /\ s0 <= 223 THEN 2
    ELSE IF s0 >= 224 /\ s0 <= 239 THEN 3
    ELSE IF s0 >= 240 /\ s0 <= 244 THEN 4
    ELSE 1

\* acceptRanges: the bounds of the second byte
AcceptLo(s0) == IF s0 = 224 THEN 160 ELSE IF s0 = 240 THEN 144 ELSE 128
AcceptHi(s0) == IF s0 = 237 THEN 159 ELSE IF s0 = 244 THEN 143 ELSE 191

DecodeRuneInString(s, i) ==
    LET s0 == s[i + 1]
        n == Len(s) - i
        sz == RuneLen(s0)
        bad == [invalid |-> TRUE, size |-> 1]
    IN IF sz = 1 THEN bad
       ELSE IF n < sz THEN bad
       ELSE IF s[i + 2] < AcceptLo(s0) \/ AcceptHi(s0) < s[i + 2] THEN bad
       ELSE IF sz <= 2 THEN [invalid |-> FALSE, size |-> 2]
       ELSE IF ~IsCont(s[i + 3]) THEN bad
       ELSE IF sz <= 3 THEN [invalid |-> FALSE, size |-> 3]
       ELSE IF ~IsCont(s[i + 4]) THEN bad
       ELSE [invalid |-> FALSE, size |-> 4]

\* the two-character or \u00XX escape of a byte below 0x80
EscapeOf(b) ==
    CASE b = 34 \/ b = 92 -> <<92, b>>
      [] b = 8 -> <<92, 98>>
      [] b = 12 -> <<92, 102>>
      [] b = 10 -> <<92, 110>>
      [] b = 13 -> <<92, 114>>
      [] b = 9 -> <<92, 116>>
      [] OTHER -> <<92, 117, 48, 48, hexTable(b \div 16), hexTable(b % 16)>>

\* the six bytes backslash, u, f, f, f, d
ReplacementEscape == <<92, 117, 102, 102, 102, 100>>

NeedsNoEscape(b) == b >= 32 /\ b <= 126 /\ b # 92 /\ b # 34

\* the loop of decodeStringComplex; i and start are 0-based indexes into s
RECURSIVE ComplexLoop(_, _, _, _)
ComplexLoop(dst, s, i, start) ==
    IF i >= Len(s)
    THEN IF start < Len(s) THEN dst \o From(s, start) ELSE dst
    ELSE LET b == s[i + 1]
         IN IF b >= 128
            THEN LET d == DecodeRuneInString(s, i)
                 IN IF d.invalid
                    THEN ComplexLoop((IF start < i
                                      THEN dst \o SubSeq(s, start + 1, i)
                                      ELSE dst) \o ReplacementEscape,
                                     s, i + d.size, i + d.size)
                    ELSE ComplexLoop(dst, s, i + d.size, start)
            ELSE IF NeedsNoEscape(b)
            THEN ComplexLoop(dst, s, i + 1, start)
            ELSE ComplexLoop((IF start < i
                              THEN dst \o SubSeq(s, start + 1, i)
                              ELSE dst) \o EscapeOf(b),
                             s, i + 1, i + 1)

\* the escaper with start := pos, which leaves out s[:pos]
decodeStringComplexFromPos(dst, s, pos) == ComplexLoop(dst, s, pos, pos)

decodeStringComplex(dst, s, pos) == ComplexLoop(dst, s, pos, 0)

decodeString(src, noQuotes) ==
    LET rb == readByte(src)
        major == MajorOf(rb.b)
        minor == MinorOf(rb.b)
    IN IF rb.fault # NoFault
       THEN [fault |-> rb.fault, src |-> rb.src, out |-> <<>>]
       ELSE IF major # majorTypeByteString
       THEN [fault |-> Errorf("major type"), src |-> rb.src, out |-> <<>>]
       ELSE LET d == decodeIntAdditionalType(rb.src, minor)
            IN IF d.fault # NoFault
               THEN [fault |-> d.fault, src |-> d.src, out |-> <<>>]
               ELSE LET rd == readNBytes(d.src, d.val)
                    IN IF rd.fault # NoFault
                       THEN [fault |-> rd.fault, src |-> rd.src, out |-> <<>>]
                       ELSE [fault |-> NoFault, src |-> rd.src,
                             out |-> IF noQuotes THEN rd.pb
                                     ELSE <<34>> \o rd.pb \o <<34>>]

\* the first index (0-based) of pbs that needs encoding, Len(pbs) if none
RECURSIVE FirstToEncode(_, _)
FirstToEncode(pbs, i) ==
    IF i >= Len(pbs) THEN i
    ELSE IF ~NeedsNoEscape(pbs[i + 1]) THEN i
    ELSE FirstToEncode(pbs, i + 1)

decodeUTF8String(src) ==
    LET rb == readByte(src)
        major == MajorOf(rb.b)
        minor == MinorOf(rb.b)
    IN IF rb.fault # NoFault
       THEN [fault |-> rb.fault, src |-> rb.src, out |-> <<>>]
       ELSE IF major # majorTypeUtf8String
       THEN [fault |-> Errorf("major type"), src |-> rb.src, out |-> <<>>]
       ELSE LET d == decodeIntAdditionalType(rb.src, minor)
            IN IF d.fault # NoFault
               THEN [fault |-> d.fault, src |-> d.src, out |-> <<>>]
               ELSE LET rd == readNBytes(d.src, d.val)
                        i == FirstToEncode(rd.pb, 0)
                    IN IF rd.fault # NoFault
                       THEN [fault |-> rd.fault, src |-> rd.src, out |-> <<>>]
                       ELSE IF i < Len(rd.pb)
                       THEN [fault |-> NoFault, src |-> rd.src,
                             out |-> decodeStringComplex(<<34>>, rd.pb, i) \o <<34>>]
                       ELSE [fault |-> NoFault, src |-> rd.src,
                             out |-> <<34>> \o rd.pb \o <<34>>]

(***************************************************************************)
(* Floats.  A decoded float is its class and its bit pattern; the three    *)
(* canonical patterns that decodeFloat compares first decode to the same   *)
(* class as the generic IEEE-754 path, which is what is modelled.  The     *)
(* decimal text of a finite float (strconv.AppendFloat 'f', -1) and its    *)
(* split into seconds and nanoseconds are tabulated for the finite values  *)
(* that occur in the modelled inputs.                                      *)
(***************************************************************************)
FloatClass(pb) ==
    LET n == Len(pb)
        expAllOnes == IF n = isFloat32
                      THEN (pb[1] % 128) * 2 + pb[2] \div 128 = 255
                      ELSE (pb[1] % 128) * 16 + pb[2] \div 16 = 2047
        mantZero == IF n = isFloat32
                    THEN pb[2] % 128 = 0 /\ pb[3] = 0 /\ pb[4] = 0
                    ELSE pb[2] % 16 = 0 /\ \A k \in 3..8 : pb[k] = 0
    IN IF ~expAllOnes THEN "finite"
       ELSE IF ~mantZero THEN "NaN"
       ELSE IF pb[1] >= 128 THEN "-Inf" ELSE "+Inf"

\* text: the shortest decimal literal; secs, frac: int64(v) and the digits of
\* the fraction as the nanosecond time format prints them
FiniteFloat(pb) ==
    CASE pb = <<0, 0, 0, 0>> \/ pb = <<0, 0, 0, 0, 0, 0, 0, 0>> ->
             [text |-> <<48>>, secs |-> 0, frac |-> <<>>]
      [] pb = <<63, 128, 0, 0>> \/ pb = <<63, 240, 0, 0, 0, 0, 0, 0>> ->
             [text |-> <<49>>, secs |-> 1, frac |-> <<>>]
      [] pb = <<64, 32, 0, 0>> \/ pb = <<64, 4, 0, 0, 0, 0, 0, 0>> ->
             [text |-> <<50, 46, 53>>, secs |-> 2, frac |-> <<46, 53>>]

decodeFloat(src) ==
    LET rb == readByte(src)
        major == MajorOf(rb.b)
        minor == MinorOf(rb.b)
        none == [class |-> "none", bits |-> <<>>]
    IN IF rb.fault # NoFault
       THEN [fault |-> rb.fault, src |-> rb.src, v |-> none, bc |-> 0]
       ELSE IF major # majorTypeSimpleAndFloat
       THEN [fault |-> Errorf("major type"), src |-> rb.src, v |-> none, bc |-> 0]
       ELSE IF minor = additionalTypeFloat16
       THEN [fault |-> Errorf("float16"), src |-> rb.src, v |-> none, bc |-> 0]
       ELSE IF minor = additionalTypeFloat32 \/ minor = additionalTypeFloat64
       THEN LET bc == IF minor = additionalTypeFloat32 THEN isFloat32 ELSE isFloat64
                rd == readNBytes(rb.src, W64(bc))
            IN IF rd.fault # NoFault
               THEN [fault |-> rd.fault, src |-> rd.src, v |-> none, bc |-> 0]
               ELSE [fault |-> NoFault, src |-> rd.src, bc |-> bc,
                     v |-> [class |-> FloatClass(rd.pb), bits |-> rd.pb]]
       ELSE [fault |-> Errorf("additional type"), src |-> rb.src, v |-> none, bc |-> 0]

(***************************************************************************)
(* Time and network text.  decodeTimeZone is nil (UTC); the texts are      *)
(* those of time.RFC3339 for the seconds of 1970-01-01, of net.IP for      *)
(* 4-byte addresses and the all-zero 16-byte address, and of               *)
(* net.HardwareAddr.                                                       *)
(***************************************************************************)
TwoDigits(k) == <<48 + (k \div 10), 48 + (k % 10)>>

\* "1970-01-01T" hh ":" mm ":" ss for 0 <= secs < 86400
ClockText(secs) ==
    <<49, 57, 55, 48, 45, 48, 49, 45, 48, 49, 84>>
    \o TwoDigits(secs \div 3600) \o <<58>> \o TwoDigits((secs \div 60) % 60)
    \o <<58>> \o TwoDigits(secs % 60)

\* t.AppendFormat(tsb, IntegerTimeFieldFormat) between quotes
IntegerTimeText(n) ==
    CASE IsSmall(n) /\ SmallVal(n) < 86400 ->
             <<34>> \o ClockText(SmallVal(n)) \o <<90, 34>>

\* t.AppendFormat(tsb, NanoTimeFieldFormat) between quotes
NanoTimeText(v) ==
    CASE v.class = "finite" ->
             <<34>> \o ClockText(FiniteFloat(v.bits).secs)
                    \o FiniteFloat(v.bits).frac \o <<90, 34>>

RECURSIVE JoinDecimal(_, _)
JoinDecimal(octets, sep) ==
    IF Len(octets) = 1 THEN Itoa(W64(octets[1]))
    ELSE Itoa(W64(Head(octets))) \o <<sep>> \o JoinDecimal(Tail(octets), sep)

RECURSIVE JoinHex(_, _)
JoinHex(octets, sep) ==
    IF octets = <<>> THEN <<>>
    ELSE <<hexTable(Head(octets) \div 16), hexTable(Head(octets) % 16)>>
         \o (IF Len(octets) > 1 THEN sep ELSE <<>>)
         \o JoinHex(Tail(octets), sep)

\* net.IP(octets).String()
IPString(octets) ==
    CASE Len(octets) = 4 -> JoinDecimal(octets, 46)
      [] Len(octets) = 16 /\ IsZero(octets) -> <<58, 58>>

\* net.HardwareAddr(octets).String()
HardwareAddrString(octets) == JoinHex(octets, <<58>>)

decodeTimeStamp(src) ==
    LET rb == readByte(src)
        un == UnreadByte(rb.src)
        tsMajor == MajorOf(rb.b)
    IN IF rb.fault # NoFault
       THEN [fault |-> rb.fault, src |-> rb.src, out |-> <<>>]
       ELSE IF tsMajor = majorTypeUnsignedInt \/ tsMajor = majorTypeNegativeInt
       THEN LET d == decodeInteger(un.src)
            IN IF d.fault # NoFault
               THEN [fault |-> d.fault, src |-> d.src, out |-> <<>>]
               ELSE [fault |-> NoFault, src |-> d.src, out |-> IntegerTimeText(d.val)]
       ELSE IF tsMajor = majorTypeSimpleAndFloat
       THEN LET f == decodeFloat(un.src)
            IN IF f.fault # NoFault
               THEN [fault |-> f.fault, src |-> f.src, out |-> <<>>]
               ELSE [fault |-> NoFault, src |-> f.src, out |-> NanoTimeText(f.v)]
       ELSE [fault |-> Errorf("timestamp"), src |-> un.src, out |-> <<>>]

\* case additionalTypeEmbeddedJSON
decodeEmbeddedJSON(src) ==
    LET rb == readByte(src)
    IN IF rb.fault # NoFault
       THEN [fault |-> rb.fault, src |-> rb.src, out |-> <<>>]
       ELSE IF MajorOf(rb.b) # majorTypeByteString
       THEN [fault |-> Errorf("embedded type"), src |-> rb.src, out |-> <<>>]
       ELSE decodeString(UnreadByte(rb.src).src, TRUE)

\* case additionalTypeTagNetworkAddr
decodeNetworkAddr(src) ==
    LET d == decodeString(src, TRUE)
        octets == d.out
    IN IF d.fault # NoFault THEN d
       ELSE IF Len(octets) = 6
       THEN [d EXCEPT !.out = <<34>> \o HardwareAddrString(octets) \o <<34>>]
       ELSE IF Len(octets) = 4 \/ Len(octets) = 16
       THEN [d EXCEPT !.out = <<34>> \o IPString(octets) \o <<34>>]
       ELSE [fault |-> Errorf("network address length"), src |-> d.src, out |-> <<>>]

\* case additionalTypeTagNetworkPrefix; the mask length is printed for
\* 0 <= pfxLen <= 32 (4 bytes) or 128 (16 bytes)
decodeNetworkPrefix(src) ==
    LET rb == readByte(src)
    IN IF rb.fault # NoFault
       THEN [fault |-> rb.fault, src |-> rb.src, out |-> <<>>]
       ELSE IF rb.b # majorTypeMap + 1
       THEN [fault |-> Errorf("prefix map"), src |-> rb.src, out |-> <<>>]
       ELSE LET d == decodeString(rb.src, TRUE)
                n == decodeInteger(d.src)
            IN IF d.fault # NoFault THEN d
               ELSE IF n.fault # NoFault
               THEN [fault |-> n.fault, src |-> n.src, out |-> <<>>]
               ELSE [fault |-> NoFault, src |-> n.src,
                     out |-> CASE IsSmall(n.val) /\ SmallVal(n.val) <=
                                      (IF Len(d.out) = 4 THEN 32 ELSE 128) ->
                                  <<34>> \o IPString(d.out) \o <<47>>
                                         \o Itoa(n.val) \o <<34>>]

\* case additionalTypeTagHexString
decodeHexString(src) ==
    LET d == decodeString(src, TRUE)
    IN IF d.fault # NoFault THEN d
       ELSE [d EXCEPT !.out = <<34>> \o JoinHex(d.out, <<>>) \o <<34>>]

\* a tag decoder that lets an unrecognised tag through: it consumes the
\* tag header and writes nothing
decodeTagDataPassing(src) ==
    LET rb == readByte(src)
        major == MajorOf(rb.b)
        minor == MinorOf(rb.b)
    IN IF rb.fault # NoFault
       THEN [fault |-> rb.fault, src |-> rb.src, out |-> <<>>]
       ELSE IF major # majorTypeTags
       THEN [fault |-> Errorf("major type"), src |-> rb.src, out |-> <<>>]
       ELSE IF minor = additionalTypeTimestamp
       THEN decodeTimeStamp(rb.src)
       ELSE LET d == decodeIntAdditionalType(rb.src, minor)
                code == d.val[7] * 256 + d.val[8]
            IN IF d.fault # NoFault
               THEN [fault |-> d.fault, src |-> d.src, out |-> <<>>]
               ELSE IF minor # additionalTypeIntUint16
               THEN [fault |-> NoFault, src |-> d.src, out |-> <<>>]
               ELSE IF code = additionalTypeEmbeddedJSON
               THEN decodeEmbeddedJSON(d.src)
               ELSE IF code = additionalTypeTagNetworkAddr
               THEN decodeNetworkAddr(d.src)
               ELSE IF code = additionalTypeTagNetworkPrefix
               THEN decodeNetworkPrefix(d.src)
               ELSE IF code = additionalTypeTagHexString
               THEN decodeHexString(d.src)
               ELSE [fault |-> NoFault, src |-> d.src, out |-> <<>>]

decodeTagData(src) ==
    LET rb == readByte(src)
        major == MajorOf(rb.b)
        minor == MinorOf(rb.b)
    IN IF rb.fault # NoFault
       THEN [fault |-> rb.fault, src |-> rb.src, out |-> <<>>]
       ELSE IF major # majorTypeTags
       THEN [fault |-> Errorf("major type"), src |-> rb.src, out |-> <<>>]
       ELSE IF minor = additionalTypeTimestamp
       THEN decodeTimeStamp(rb.src)
       ELSE IF minor = additionalTypeIntUint16
       THEN LET d == decodeIntAdditionalType(rb.src, minor)
                code == d.val[7] * 256 + d.val[8]
            IN IF d.fault # NoFault
               THEN [fault |-> d.fault, src |-> d.src, out |-> <<>>]
               ELSE IF code = additionalTypeEmbeddedJSON
               THEN decodeEmbeddedJSON(d.src)
               ELSE IF code = additionalTypeTagNetworkAddr
               THEN decodeNetworkAddr(d.src)
               ELSE IF code = additionalTypeTagNetworkPrefix
               THEN decodeNetworkPrefix(d.src)
               ELSE IF code = additionalTypeTagHexString
               THEN decodeHexString(d.src)
               ELSE [fault |-> Errorf("tag type"), src |-> d.src, out |-> <<>>]
       ELSE [fault |-> Errorf("additional type"), src |-> rb.src, out |-> <<>>]

decodeSimpleFloat(src) ==
    LET rb == readByte(src)
        major == MajorOf(rb.b)
        minor == MinorOf(rb.b)
    IN IF rb.fault # NoFault
       THEN [fault |-> rb.fault, src |-> rb.src, out |-> <<>>]
       ELSE IF major # majorTypeSimpleAndFloat
       THEN [fault |-> Errorf("major type"), src |-> rb.src, out |-> <<>>]
       ELSE IF minor = additionalTypeBoolTrue
       THEN [fault |-> NoFault, src |-> rb.src, out |-> <<116, 114, 117, 101>>]
       ELSE IF minor = additionalTypeBoolFalse
       THEN [fault |-> NoFault, src |-> rb.src, out |-> <<102, 97, 108, 115, 101>>]
       ELSE IF minor = additionalTypeNull
       THEN [fault |-> NoFault, src |-> rb.src, out |-> <<110, 117, 108, 108>>]
       ELSE IF minor \in {additionalTypeFloat16, additionalTypeFloat32,
                          additionalTypeFloat64}
       THEN LET f == decodeFloat(UnreadByte(rb.src).src)
            IN IF f.fault # NoFault
               THEN [fault |-> f.fault, src |-> f.src, out |-> <<>>]
               ELSE [fault |-> NoFault, src |-> f.src,
                     out |-> CASE f.v.class = "NaN" -> <<34, 78, 97, 78, 34>>
                               [] f.v.class = "+Inf" -> <<34, 43, 73, 110, 102, 34>>
                               [] f.v.class = "-Inf" -> <<34, 45, 73, 110, 102, 34>>
                               [] OTHER -> FiniteFloat(f.v.bits).text]
       ELSE [fault |-> Errorf("additional type"), src |-> rb.src, out |-> <<>>]

(***************************************************************************)
(* The decode calls.  Every caller c runs one call at a time: root[c] is   *)
(* the function the caller invoked, input[c] its argument, src[c] the      *)
(* cursor the call created, dst[c] the sink (the bytes.Buffer b, or the    *)
(* writer handed to ManyObjCBOR2JSON), stack[c] the array2Json / map2Json  *)
(* activations in progress and pc[c] the point the call has reached.       *)
(* fault[c] is the value of the panic that was raised, err[c] the error    *)
(* ManyObjCBOR2JSON returned, ret[c] the value the root function returned  *)
(* and logged[c] the errors handed to the logger by utils.HandleErr.       *)
(***************************************************************************)
VARIABLES root, input, src, dst, stack, pc, fault, err, ret, logged, decodeTimeZone

vars == <<root, input, src, dst, stack, pc, fault, err, ret, logged, decodeTimeZone>>

Callers == {"a", "b"}

\* the roots whose decode runs inside ManyObjCBOR2JSON
ManyRoots == {"DecodeIfBinaryToString", "DecodeIfBinaryToBytes", "ManyObjCBOR2JSON"}

PublicRoots == {"DecodeIfBinaryToString", "DecodeObjectToStr", "DecodeIfBinaryToBytes"}

\* the test with >= 0x7F for > 0x7F
binaryFmtFrom7F(p) == Len(p) > 0 /\ p[1] >= 127

binaryFmt(p) == Len(p) > 0 /\ p[1] > 127

Init ==
    /\ root = [c \in Callers |-> "none"]
    /\ input = [c \in Callers |-> <<>>]
    /\ src = [c \in Callers |-> NoReader]
    /\ dst = [c \in Callers |-> <<>>]
    /\ stack = [c \in Callers |-> <<>>]
    /\ pc = [c \in Callers |-> "idle"]
    /\ fault = [c \in Callers |-> NoFault]
    /\ err = [c \in Callers |-> NoFault]
    /\ ret = [c \in Callers |-> <<>>]
    /\ logged = [c \in Callers |-> <<>>]
    /\ decodeTimeZone = "nil"

\* a call of `name` on p that starts decoding at `first`
Start(c, name, p, first) ==
    /\ pc[c] = "idle"
    /\ root' = [root EXCEPT ![c] = name]
    /\ input' = [input EXCEPT ![c] = p]
    /\ src' = [src EXCEPT ![c] = NewReader(p)]
    /\ pc' = [pc EXCEPT ![c] = first]
    /\ UNCHANGED <<dst, stack, fault, err, ret, logged, decodeTimeZone>>

\* a call of `name` on a p that is not binary: return p
PassThrough(c, name, p) ==
    /\ pc[c] = "idle"
    /\ root' = [root EXCEPT ![c] = name]
    /\ input' = [input EXCEPT ![c] = p]
    /\ ret' = [ret EXCEPT ![c] = p]
    /\ pc' = [pc EXCEPT ![c] = "returned"]
    /\ UNCHANGED <<src, dst, stack, fault, err, logged, decodeTimeZone>>

DecodeIfBinaryToString(c, p) ==
    IF binaryFmt(p) THEN Start(c, "DecodeIfBinaryToString", p, "more")
    ELSE PassThrough(c, "DecodeIfBinaryToString", p)

\* DecodeObjectToStr without the test of the leading byte
DecodeObjectToStrUntested(c, p) == Start(c, "DecodeObjectToStr", p, "object")

DecodeObjectToStr(c, p) ==
    IF binaryFmt(p) THEN Start(c, "DecodeObjectToStr", p, "object")
    ELSE PassThrough(c, "DecodeObjectToStr", p)

DecodeIfBinaryToBytes(c, p) ==
    IF binaryFmt(p) THEN Start(c, "DecodeIfBinaryToBytes", p, "more")
    ELSE PassThrough(c, "DecodeIfBinaryToBytes", p)

\* ManyObjCBOR2JSON called on a reader over p and a fresh buffer
ManyObjCBOR2JSON(c, p) == Start(c, "ManyObjCBOR2JSON", p, "more")

\* cbor2JsonOneObject called on getReader(p) and a fresh buffer
CallCbor2JsonOneObject(c, p) == Start(c, "cbor2JsonOneObject", p, "object")

\* where control goes when a cbor2JsonOneObject call returns
Continue(c, stk) ==
    IF stk # <<>>
    THEN IF stk[Len(stk)].kind = "array" THEN "arrayNext" ELSE "mapNext"
    ELSE IF root[c] \in ManyRoots THEN "newline" ELSE "finish"

\* a panic raised by the running step
Panic(c, f, s, d) ==
    /\ fault' = [fault EXCEPT ![c] = f]
    /\ src' = [src EXCEPT ![c] = s]
    /\ dst' = [dst EXCEPT ![c] = d]
    /\ pc' = [pc EXCEPT ![c] = "panic"]
    /\ UNCHANGED <<root, input, stack, err, ret, logged, decodeTimeZone>>

\* the step of a decoder whose sink is one buffer shared by all callers
GotoSharedSink(c, next, s, d, stk) ==
    /\ src' = [src EXCEPT ![c] = s]
    /\ dst' = [x \in Callers |-> d]
    /\ stack' = [stack EXCEPT ![c] = stk]
    /\ pc' = [pc EXCEPT ![c] = next]
    /\ UNCHANGED <<root, input, fault, err, ret, logged, decodeTimeZone>>

\* the running step went on to `next` with cursor s, sink d and stack stk
Goto(c, next, s, d, stk) ==
    /\ src' = [src EXCEPT ![c] = s]
    /\ dst' = [dst EXCEPT ![c] = d]
    /\ stack' = [stack EXCEPT ![c] = stk]
    /\ pc' = [pc EXCEPT ![c] = next]
    /\ UNCHANGED <<root, input, fault, err, ret, logged, decodeTimeZone>>

Pop(stk) == SubSeq(stk, 1, Len(stk) - 1)

\* a driver that asks for more bytes again when the input is exhausted
moreBytesToReadAgain(c) ==
    /\ pc[c] = "more"
    /\ LET rb == ReadByte(src[c])
       IN IF ~rb.e
          THEN Goto(c, "object", UnreadByte(rb.src).src, dst[c], stack[c])
          ELSE Goto(c, "more", rb.src, dst[c], stack[c])

moreBytesToRead(c) ==
    /\ pc[c] = "more"
    /\ LET rb == ReadByte(src[c])
       IN IF ~rb.e
          THEN Goto(c, "object", UnreadByte(rb.src).src, dst[c], stack[c])
          ELSE \* the loop ends and ManyObjCBOR2JSON returns nil
               Goto(c, "finish", rb.src, dst[c], stack[c])

\* the prologue of array2Json up to its loop
array2JsonOpen(c, s0, d0) ==
    LET d1 == d0 \o <<91>>
        rb == readByte(s0)
        minor == MinorOf(rb.b)
        len == decodeIntAdditionalType(rb.src, minor)
    IN IF rb.fault # NoFault THEN Panic(c, rb.fault, rb.src, d1)
       ELSE IF MajorOf(rb.b) # majorTypeArray
       THEN Panic(c, Errorf("major type"), rb.src, d1)
       ELSE IF minor = additionalTypeInfiniteCount
       THEN Goto(c, "array", rb.src, d1,
                 Append(stack[c], [kind |-> "array", unSpecifiedCount |-> TRUE,
                                   len |-> W64(0), i |-> 0]))
       ELSE IF len.fault # NoFault THEN Panic(c, len.fault, len.src, d1)
       ELSE Goto(c, "array", len.src, d1,
                 Append(stack[c], [kind |-> "array", unSpecifiedCount |-> FALSE,
                                   len |-> len.val, i |-> 0]))

\* the prologue of map2Json up to its loop
map2JsonOpen(c, s0, d0) ==
    LET rb == readByte(s0)
        minor == MinorOf(rb.b)
        len == decodeIntAdditionalType(rb.src, minor)
    IN IF rb.fault # NoFault THEN Panic(c, rb.fault, rb.src, d0)
       ELSE IF MajorOf(rb.b) # majorTypeMap
       THEN Panic(c, Errorf("major type"), rb.src, d0)
       ELSE IF minor = additionalTypeInfiniteCount
       THEN Goto(c, "map", rb.src, d0 \o <<123>>,
                 Append(stack[c], [kind |-> "map", unSpecifiedCount |-> TRUE,
                                   len |-> W64(0), i |-> 0]))
       ELSE IF len.fault # NoFault THEN Panic(c, len.fault, len.src, d0)
       ELSE Goto(c, "map", len.src, d0 \o <<123>>,
                 Append(stack[c], [kind |-> "map", unSpecifiedCount |-> FALSE,
                                   len |-> len.val, i |-> 0]))

\* a decoder whose bytes the dispatcher writes in one Write
WriteDecoded(c, d) ==
    IF d.fault # NoFault THEN Panic(c, d.fault, d.src, dst[c])
    ELSE Goto(c, Continue(c, stack[c]), d.src, dst[c] \o d.out, stack[c])

cbor2JsonOneObject(c) ==
    /\ pc[c] = "object"
    /\ LET pk == Peek(src[c])
           major == MajorOf(pk.b)
       IN IF pk.e THEN Panic(c, Errorf("eof"), pk.src, dst[c])
          ELSE IF major = majorTypeUnsignedInt \/ major = majorTypeNegativeInt
          THEN LET n == decodeInteger(pk.src)
               IN WriteDecoded(c, [fault |-> n.fault, src |-> n.src,
                                   out |-> IF n.fault = NoFault
                                           THEN Itoa(n.val) ELSE <<>>])
          ELSE IF major = majorTypeByteString
          THEN WriteDecoded(c, decodeString(pk.src, FALSE))
          ELSE IF major = majorTypeUtf8String
          THEN WriteDecoded(c, decodeUTF8String(pk.src))
          ELSE IF major = majorTypeArray
          THEN array2JsonOpen(c, pk.src, dst[c])
          ELSE IF major = majorTypeMap
          THEN map2JsonOpen(c, pk.src, dst[c])
          ELSE IF major = majorTypeTags
          THEN WriteDecoded(c, decodeTagData(pk.src))
          ELSE WriteDecoded(c, decodeSimpleFloat(pk.src))

\* the closing bracket or brace and the return of array2Json / map2Json
Close(c, s, closer) ==
    Goto(c, Continue(c, Pop(stack[c])), s, dst[c] \o <<closer>>, Pop(stack[c]))

\* the peek for the break marker in an indefinite array or map
BreakOr(c, closer, next, d, stk) ==
    LET pk == Peek(src[c])
    IN IF pk.e THEN Panic(c, Errorf("eof"), pk.src, dst[c])
       ELSE IF pk.b = BreakByte THEN Close(c, readByte(pk.src).src, closer)
       ELSE Goto(c, next, pk.src, d, stk)

Top(c) == stack[c][Len(stack[c])]

Bump(c) == [stack[c] EXCEPT ![Len(stack[c])].i = @ + 1]

\* the head of the loop of array2Json, up to the call of the dispatcher
array2JsonLoop(c) ==
    /\ pc[c] = "array"
    /\ IF ~(Top(c).unSpecifiedCount \/ LessThanWord(Top(c).i, Top(c).len))
       THEN Close(c, src[c], 93)
       ELSE IF Top(c).unSpecifiedCount
       THEN BreakOr(c, 93, "object", dst[c], stack[c])
       ELSE Goto(c, "object", src[c], dst[c], stack[c])

\* array2Json writing the comma after every element, the last included
array2JsonNextAlwaysComma(c) ==
    /\ pc[c] = "arrayNext"
    /\ IF Top(c).unSpecifiedCount
       THEN BreakOr(c, 93, "array", dst[c] \o <<44>>, Bump(c))
       ELSE Goto(c, "array", src[c], dst[c] \o <<44>>, Bump(c))

\* the rest of the loop body of array2Json, after the dispatcher returned
array2JsonNext(c) ==
    /\ pc[c] = "arrayNext"
    /\ IF Top(c).unSpecifiedCount
       THEN BreakOr(c, 93, "array", dst[c] \o <<44>>, Bump(c))
       ELSE IF LessThanWord(Top(c).i + 1, Top(c).len)
       THEN Goto(c, "array", src[c], dst[c] \o <<44>>, Bump(c))
       ELSE Goto(c, "array", src[c], dst[c], Bump(c))

\* the head of the loop of map2Json, up to the call of the dispatcher
map2JsonLoop(c) ==
    /\ pc[c] = "map"
    /\ IF ~(Top(c).unSpecifiedCount \/ LessThanWord(Top(c).i, Top(c).len))
       THEN Close(c, src[c], 125)
       ELSE IF Top(c).unSpecifiedCount
       THEN BreakOr(c, 125, "object", dst[c], stack[c])
       ELSE Goto(c, "object", src[c], dst[c], stack[c])

\* the rest of the loop body of map2Json, after the dispatcher returned
map2JsonNext(c) ==
    /\ pc[c] = "mapNext"
    /\ IF Top(c).i % 2 = 0
       THEN Goto(c, "map", src[c], dst[c] \o <<58>>, Bump(c))
       ELSE IF Top(c).unSpecifiedCount
       THEN BreakOr(c, 125, "map", dst[c] \o <<44>>, Bump(c))
       ELSE IF LessThanWord(Top(c).i + 1, Top(c).len)
       THEN Goto(c, "map", src[c], dst[c] \o <<44>>, Bump(c))
       ELSE Goto(c, "map", src[c], dst[c], Bump(c))

\* the driver going on to the next object without the newline
WriteNewlineLeftOut(c) ==
    /\ pc[c] = "newline"
    /\ Goto(c, "more", src[c], dst[c], stack[c])

\* dst.Write([]byte("\n")) after a top-level object of ManyObjCBOR2JSON
WriteNewline(c) ==
    /\ pc[c] = "newline"
    /\ Goto(c, "more", src[c], dst[c] \o <<10>>, stack[c])

\* a deferred function that turns every recovered value into the error
RecoveredEverything(r) == [repanic |-> FALSE, err |-> r]

\* the deferred function of ManyObjCBOR2JSON on the recovered value r:
\* the panic goes on (repanic) or r becomes the returned error
Recovered(r) ==
    IF r.kind = "runtime" THEN [repanic |-> TRUE, err |-> NoFault]
    ELSE [repanic |-> FALSE, err |-> r]

\* a panic unwinds the call: through the deferred function of
\* ManyObjCBOR2JSON when the decode runs under it, and out of the root
\* function when nothing recovers it
Unwind(c) ==
    /\ pc[c] = "panic"
    /\ stack' = [stack EXCEPT ![c] = <<>>]
    /\ IF root[c] \in ManyRoots /\ ~Recovered(fault[c]).repanic
       THEN /\ err' = [err EXCEPT ![c] = Recovered(fault[c]).err]
            /\ pc' = [pc EXCEPT ![c] = "finish"]
       ELSE /\ pc' = [pc EXCEPT ![c] = "panicked"]
            /\ UNCHANGED err
    /\ UNCHANGED <<root, input, src, dst, fault, ret, logged, decodeTimeZone>>

\* the root function returns: the wrappers hand the error of
\* ManyObjCBOR2JSON to utils.HandleErr, which logs it, and return the buffer
Finish(c) ==
    /\ pc[c] = "finish"
    /\ pc' = [pc EXCEPT ![c] = "returned"]
    /\ logged' = [logged EXCEPT ![c] =
                     IF root[c] \in PublicRoots /\ root[c] \in ManyRoots
                        /\ err[c] # NoFault
                     THEN Append(@, err[c]) ELSE @]
    /\ ret' = [ret EXCEPT ![c] = IF root[c] \in PublicRoots THEN dst[c] ELSE @]
    /\ UNCHANGED <<root, input, src, dst, stack, fault, err, decodeTimeZone>>

(***************************************************************************)
(* Bounds of the modelled inputs.                                          *)
(***************************************************************************)
\* arrays and maps nest to at most this depth
MaxDepth == 2
\* an array holds at most this many elements, a map this many pairs
MaxElems == 2
\* a stream holds at most this many top-level objects
MaxObjs == 3
\* a string payload holds at most this many characters
MaxChars == 3
\* integers lie within this distance of a boundary of an encoding width
IntSpread == 2

(***************************************************************************)
(* Inputs: documents.  A document is the bytes of one item and the JSON    *)
(* text expected for it.                                                   *)
(***************************************************************************)
Doc(bytes, text) == [bytes |-> bytes, text |-> text]

\* the integer 1, and the string "a" that is the key of every map pair
OneDoc == Doc(<<1>>, <<49>>)
KeyDoc == Doc(<<97, 97>>, <<34, 97, 34>>)

\* the texts joined by commas
RECURSIVE JoinTexts(_)
JoinTexts(ts) ==
    IF ts = <<>> THEN <<>>
    ELSE IF Len(ts) = 1 THEN ts[1]
    ELSE ts[1] \o <<44>> \o JoinTexts(Tail(ts))

\* an array of the elements es: a header with the count, or the indefinite
\* header and a break marker
ArrayDoc(definite, es) ==
    Doc((IF definite THEN <<majorTypeArray + Len(es)>>
         ELSE <<majorTypeArray + additionalTypeInfiniteCount>>)
        \o Flatten([k \in 1..Len(es) |-> es[k].bytes])
        \o (IF definite THEN <<>> ELSE <<BreakByte>>),
        <<91>> \o JoinTexts([k \in 1..Len(es) |-> es[k].text]) \o <<93>>)

\* a map of the pairs "a": v for the values vs; the definite header counts
\* the items, two for each pair
MapDoc(definite, vs) ==
    Doc((IF definite THEN <<majorTypeMap + 2 * Len(vs)>>
         ELSE <<majorTypeMap + additionalTypeInfiniteCount>>)
        \o Flatten([k \in 1..Len(vs) |-> KeyDoc.bytes \o vs[k].bytes])
        \o (IF definite THEN <<>> ELSE <<BreakByte>>),
        <<123>> \o JoinTexts([k \in 1..Len(vs) |->
                                 KeyDoc.text \o <<58>> \o vs[k].text]) \o <<125>>)

\* the element lists of a container: up to MaxElems elements, each the
\* integer 1 but for at most one, which is a container of `inner`
ElemLists(inner) ==
    UNION { {[k \in 1..n |-> OneDoc]}
            \cup {[k \in 1..n |-> IF k = j THEN x ELSE OneDoc] :
                     j \in 1..n, x \in inner}
          : n \in 0..MaxElems }

\* the arrays and maps of the elements of `lists`, with a definite and with
\* an indefinite header
Containers(lists) ==
    {ArrayDoc(definite, es) : definite \in BOOLEAN, es \in lists}
    \cup {MapDoc(definite, es) : definite \in BOOLEAN, es \in lists}

\* the arrays and maps that nest to depth d at most and hold one element at
\* most: nothing, the integer 1 or one of their kind
RECURSIVE Spines(_)
Spines(d) ==
    IF d = 0 THEN {}
    ELSE Containers({<<>>, <<OneDoc>>} \cup {<<x>> : x \in Spines(d - 1)})

\* arrays and maps that nest to depth MaxDepth at most
NestedDocs == Containers(ElemLists(Spines(MaxDepth - 1)))

\* the first n items of a map: the key "a" and the value 1 in turn
MapItems(n) ==
    Flatten([k \in 1..n |-> IF k % 2 = 1 THEN KeyDoc.bytes ELSE OneDoc.bytes])

\* maps of n items, n odd as well as even: with a definite header that
\* counts the items, and indefinite with the break marker after item n
MapItemInputs ==
    { <<majorTypeMap + n>> \o MapItems(n) : n \in 0..(2 * MaxElems) }
    \cup { <<majorTypeMap + additionalTypeInfiniteCount>> \o MapItems(n)
             \o <<BreakByte>> : n \in 0..(2 * MaxElems) }

(***************************************************************************)
(* Inputs: texts.  Inputs that are empty or start with a byte <= 0x7F.     *)
(***************************************************************************)
TextInputs ==
    { <<>>,
      <<123, 34, 97, 34, 58, 49, 125>>,      \* {"a":1}
      <<100, 116, 101, 115, 116>>,           \* 0x64 t e s t
      <<127, 255, 129, 1>>,
      <<127>>,
      <<0, 191, 255>> }

(***************************************************************************)
(* Inputs: integers.  An integer n is encoded from the unsigned value v    *)
(* (v = n for major type 0, v = -1 - n for major type 1) in the immediate  *)
(* form (width 0) or with an extension of 1, 2, 4 or 8 bytes.              *)
(***************************************************************************)
RECURSIVE SubOne(_)
SubOne(w) ==
    IF w[Len(w)] > 0 THEN SubSeq(w, 1, Len(w) - 1) \o <<w[Len(w)] - 1>>
    ELSE SubOne(SubSeq(w, 1, Len(w) - 1)) \o <<255>>

RECURSIVE Plus(_, _)
Plus(w, k) == IF k = 0 THEN w ELSE Plus(AddOne(w), k - 1)

RECURSIVE Minus(_, _)
Minus(w, k) == IF k = 0 \/ IsZero(w) THEN w ELSE Minus(SubOne(w), k - 1)

\* 0, 24, 2^8, 2^16, 2^32 and 2^63: where an encoding width ends
WidthBoundaries ==
    { W64(0), W64(24), W64(256), W64(65536),
      <<0, 0, 0, 1, 0, 0, 0, 0>>, <<128, 0, 0, 0, 0, 0, 0, 0>> }

\* the unsigned values below 2^63 near a boundary
IntValues ==
    { v \in UNION { {Plus(b, k), Minus(b, k)} : b \in WidthBoundaries,
                                               k \in 0..IntSpread } :
        ~IsNeg(v) }

\* v fits the extension width (0: the immediate form)
FitsWidth(v, width) ==
    IF width = 0 THEN IsSmall(v) /\ SmallVal(v) <= 23
    ELSE \A k \in 1..(8 - width) : v[k] = 0

MinorOfWidth(v, width) ==
    CASE width = 0 -> v[8]
      [] width = 1 -> additionalTypeIntUint8
      [] width = 2 -> additionalTypeIntUint16
      [] width = 4 -> additionalTypeIntUint32
      [] width = 8 -> additionalTypeIntUint64

\* the encoding of the integer n, and n as a sign and a magnitude: n = v
\* for major type 0 and n = -(v + 1) for major type 1
IntCase(major, v, width) ==
    [bytes |-> <<major + MinorOfWidth(v, width)>> \o SubSeq(v, 9 - width, 8),
     neg |-> major = majorTypeNegativeInt,
     mag |-> IF major = majorTypeNegativeInt THEN Plus(v, 1) ELSE v]

IntCases ==
    UNION { IF FitsWidth(v, width) THEN {IntCase(major, v, width)} ELSE {} :
              major \in {majorTypeUnsignedInt, majorTypeNegativeInt},
              v \in IntValues,
              width \in {0, 1, 2, 4, 8} }

\* the unsigned values of 2^63 and above near 2^63 and near 2^64 - 1
BigIntValues ==
    { v \in UNION { {Plus(<<128, 0, 0, 0, 0, 0, 0, 0>>, k),
                     Minus(<<255, 255, 255, 255, 255, 255, 255, 255>>, k)} :
                      k \in 0..IntSpread } :
        IsNeg(v) }

\* the integer items with an 8-byte extension that holds such a value v
BigIntCases ==
    { [bytes |-> <<major + additionalTypeIntUint64>> \o v,
       neg |-> major = majorTypeNegativeInt,
       v |-> v] :
        major \in {majorTypeUnsignedInt, majorTypeNegativeInt},
        v \in BigIntValues }

(***************************************************************************)
(* Inputs: UTF-8 strings.  A character is its bytes and the text the JSON  *)
(* string shows for it.  A payload is up to MaxChars characters, all of    *)
(* them of PlainChars but for at most one.                                 *)
(***************************************************************************)
Char(bytes, text) == [bytes |-> bytes, text |-> text]

Verbatim(bytes) == Char(bytes, bytes)

PlainChars ==
    { Verbatim(<<97>>),                          \* a
      Char(<<9>>, <<92, 116>>),                  \* tab
      Char(<<255>>, <<92, 117, 102, 102, 102, 100>>) }

OtherChars ==
    { Char(<<34>>, <<92, 34>>),                  \* double quote
      Char(<<92>>, <<92, 92>>),                  \* backslash
      Char(<<8>>, <<92, 98>>),                   \* backspace
      Char(<<12>>, <<92, 102>>),                 \* form feed
      Char(<<10>>, <<92, 110>>),                 \* newline
      Char(<<13>>, <<92, 114>>),                 \* carriage return
      Char(<<0>>, <<92, 117, 48, 48, 48, 48>>),
      Char(<<31>>, <<92, 117, 48, 48, 49, 102>>),
      Char(<<127>>, <<92, 117, 48, 48, 55, 102>>),
      Verbatim(<<32>>),                          \* space
      Verbatim(<<126>>),                         \* ~
      Verbatim(<<195, 169>>),                    \* U+00E9
      Verbatim(<<195, 128>>),                    \* U+00C0
      Verbatim(<<226, 130, 172>>),               \* U+20AC
      Verbatim(<<239, 191, 189>>),               \* U+FFFD itself
      Verbatim(<<240, 159, 152, 128>>),          \* U+1F600
      Char(<<128>>, <<92, 117, 102, 102, 102, 100>>),   \* a lone continuation
      Char(<<195>>, <<92, 117, 102, 102, 102, 100>>),   \* a lead byte alone
      Char(<<226>>, <<92, 117, 102, 102, 102, 100>>),
      Char(<<192>>, <<92, 117, 102, 102, 102, 100>>),   \* never valid
      Char(<<237, 160, 128>>,                           \* a surrogate
           <<92, 117, 102, 102, 102, 100, 92, 117, 102, 102, 102, 100,
             92, 117, 102, 102, 102, 100>>) }

PlainLists == UNION { [1..n -> PlainChars] : n \in 0..MaxChars }

MixedLists ==
    UNION { {[cs EXCEPT ![j] = x] : x \in OtherChars, j \in 1..Len(cs)} :
              cs \in PlainLists }

\* the string item of the characters cs, its length immediate or (wide) in
\* a one-byte extension, and the JSON string expected for it
StrCase(cs, wide) ==
    LET payload == Flatten([k \in 1..Len(cs) |-> cs[k].bytes])
    IN [bytes |-> (IF wide
                   THEN <<majorTypeUtf8String + additionalTypeIntUint8, Len(payload)>>
                   ELSE <<majorTypeUtf8String + Len(payload)>>) \o payload,
        text |-> <<34>> \o Flatten([k \in 1..Len(cs) |-> cs[k].text]) \o <<34>>]

StrCases ==
    { StrCase(cs, wide) : cs \in PlainLists, wide \in BOOLEAN }
    \cup { StrCase(cs, FALSE) : cs \in MixedLists }

(***************************************************************************)
(* Inputs: tags.                                                           *)
(***************************************************************************)
\* items of the recognised tags and their text
KnownTagDocs ==
    { Doc(<<193, 24, 61>>,                              \* timestamp 61
          <<34, 49, 57, 55, 48, 45, 48, 49, 45, 48, 49, 84,
            48, 48, 58, 48, 49, 58, 48, 49, 90, 34>>),
      Doc(<<193, 250, 64, 32, 0, 0>>,                   \* timestamp 2.5
          <<34, 49, 57, 55, 48, 45, 48, 49, 45, 48, 49, 84,
            48, 48, 58, 48, 48, 58, 48, 50, 46, 53, 90, 34>>),
      Doc(<<217, 1, 6, 66, 123, 125>>, <<123, 125>>),   \* embedded {}
      Doc(<<217, 1, 4, 68, 10, 0, 0, 1>>,               \* 10.0.0.1
          <<34, 49, 48, 46, 48, 46, 48, 46, 49, 34>>),
      Doc(<<217, 1, 4, 70, 10, 0, 0, 1, 171, 205>>,     \* a MAC address
          <<34, 48, 97, 58, 48, 48, 58, 48, 48, 58, 48, 49, 58, 97, 98, 58,
            99, 100, 34>>),
      Doc(<<217, 1, 5, 161, 68, 10, 0, 0, 1, 24, 24>>,  \* 10.0.0.1/24
          <<34, 49, 48, 46, 48, 46, 48, 46, 49, 47, 50, 52, 34>>),
      Doc(<<217, 1, 7, 66, 123, 125>>, <<34, 55, 98, 55, 100, 34>>) }

\* items whose decoder reads the leading byte, un-reads it and hands the
\* cursor to the decoder of the item: timestamps, embedded JSON and floats
RedecodedDocs ==
    { d \in KnownTagDocs : d.bytes[1] = 193 \/ SubSeq(d.bytes, 1, 3) = <<217, 1, 6>> }
    \cup { Doc(<<250, 63, 128, 0, 0>>, <<49>>),                    \* float32 1
           Doc(<<251, 64, 4, 0, 0, 0, 0, 0, 0>>, <<50, 46, 53>>),  \* float64 2.5
           Doc(<<193, 250, 63, 128, 0, 0>>,                        \* timestamp 1.0
               <<34, 49, 57, 55, 48, 45, 48, 49, 45, 48, 49, 84,
                 48, 48, 58, 48, 48, 58, 48, 49, 90, 34>>) }

\* tag headers whose code is none of 1, 260, 261, 262, 263
UnknownTagHeads ==
    { <<192>>, <<194>>, <<215>>, <<216, 24>>, <<216, 255>>, <<217, 0, 8>>,
      <<217, 1, 3>>, <<217, 1, 8>>, <<217, 255, 255>>, <<218, 0, 1, 0, 0>>,
      <<219, 0, 0, 0, 1, 0, 0, 0, 0>> }

\* the values that follow the tag header
TaggedValues == { <<1>>, <<65, 97>> }

\* a network address of a length that is none of 4, 6, 16
BadAddrLengths == {0, 1, 2, 3, 5, 7, 8, 15, 17}

BadAddrItems ==
    { <<217, 1, 4, majorTypeByteString + n>> \o [k \in 1..n |-> 10] :
        n \in BadAddrLengths }

FaultyTagItems ==
    { h \o v : h \in UnknownTagHeads, v \in TaggedValues } \cup BadAddrItems

\* the item at the top level, as the second element of an array and as the
\* value of a map pair; before: what the sink holds when the item is reached
TagFaultCases ==
    UNION { { [bytes |-> t, before |-> <<>>],
              [bytes |-> <<majorTypeArray + 2, 1>> \o t,
               before |-> <<91, 49, 44>>],
              [bytes |-> <<BreakByte - 64, 97, 97>> \o t \o <<BreakByte>>,
               before |-> <<123, 34, 97, 34, 58>>] }
          : t \in FaultyTagItems }

(***************************************************************************)
(* Inputs: streams.  Up to MaxObjs top-level objects, the last of which    *)
(* may be a faulty one.                                                    *)
(***************************************************************************)
GoodObjs ==
    { OneDoc, MapDoc(FALSE, <<OneDoc>>), ArrayDoc(TRUE, <<OneDoc, OneDoc>>) }

\* bytes: an item the decoder faults on; partial: what it has written for
\* the item by then; kind: the kind of the fault
Faulty(bytes, partial, kind) == [bytes |-> bytes, partial |-> partial, kind |-> kind]

FaultyObjs ==
    { Faulty(<<216, 5, 1>>, <<>>, "error"),                 \* unknown tag
      Faulty(<<28>>, <<>>, "error"),                        \* minor 28
      Faulty(<<98, 97>>, <<>>, "error"),                    \* string cut short
      Faulty(<<130, 1, 28>>, <<91, 49, 44>>, "error"),
      Faulty(<<159, 1>>, <<91, 49>>, "error"),              \* no break marker
      Faulty(<<191, 97, 97>>, <<123, 34, 97, 34, 58>>, "error"),
      Faulty(<<249, 0, 0>>, <<>>, "error"),                 \* float16
      Faulty(<<255>>, <<>>, "error"),                       \* a break marker
      Faulty(<<217, 1, 4, 65, 10>>, <<>>, "error"),         \* address length
      Faulty(<<217, 1, 6, 1>>, <<>>, "error"),              \* embedded type
      Faulty(<<217, 1, 5, 1>>, <<>>, "error"),              \* prefix not a map
      Faulty(<<193, 97, 97>>, <<>>, "error"),               \* timestamp type
      Faulty(<<91, 0, 0, 0, 0, 0, 0, 0, 5, 97>>, <<>>, "error"),
      Faulty(<<91, 128, 0, 0, 0, 0, 0, 0, 0>>, <<>>, "runtime"),
      Faulty(<<123, 255, 255, 255, 255, 255, 255, 255, 255>>, <<>>, "runtime"),
      Faulty(<<129, 91, 128, 0, 0, 0, 0, 0, 0, 0>>, <<91>>, "runtime"),
      Faulty(<<91, 0, 2, 0, 0, 0, 0, 0, 0>>, <<>>, "runtime") }

GoodLists == UNION { [1..n -> GoodObjs] : n \in 0..MaxObjs }

\* the records of the objects: each text and a newline
Records(objs) == Flatten([k \in 1..Len(objs) |-> objs[k].text \o <<10>>])

\* ends[k + 1]: the number of input bytes up to the end of object k
RECURSIVE Ends(_)
Ends(objs) ==
    IF objs = <<>> THEN <<0>>
    ELSE LET e == Ends(SubSeq(objs, 1, Len(objs) - 1))
         IN Append(e, e[Len(e)] + Len(objs[Len(objs)].bytes))

StreamCase(objs, faulty, f) ==
    [bytes |-> Flatten([k \in 1..Len(objs) |-> objs[k].bytes])
               \o (IF faulty THEN f.bytes ELSE <<>>),
     objs |-> objs,
     faulty |-> faulty,
     partial |-> IF faulty THEN f.partial ELSE <<>>,
     kind |-> IF faulty THEN f.kind ELSE "none"]

StreamCases ==
    { StreamCase(objs, FALSE, Faulty(<<>>, <<>>, "none")) : objs \in GoodLists }
    \cup { StreamCase(objs, TRUE, f) :
             objs \in {g \in GoodLists : Len(g) < MaxObjs}, f \in FaultyObjs }

(***************************************************************************)
(* Inputs: truncations.  An item with a multi-byte length or value field,  *)
(* as the element of an array or the value of a map pair, cut after the    *)
(* first and before the last byte of the item.                             *)
(***************************************************************************)
MultiByteItems ==
    { <<25, 1, 0>>,
      <<27, 0, 0, 0, 0, 0, 0, 0, 1>>,
      <<120, 2, 97, 97>>,
      <<89, 0, 1, 97>>,
      <<217, 1, 7, 65, 10>>,
      <<250, 63, 128, 0, 0>>,
      <<152, 1, 1>> }

TruncInputs ==
    UNION { { SubSeq(head \o item, 1, Len(head) + j) : j \in 1..(Len(item) - 1) }
          : head \in { <<majorTypeArray + 1>>, <<BreakByte - 64, 97, 97>> },
            item \in MultiByteItems }

(***************************************************************************)
(* All inputs.                                                             *)
(***************************************************************************)
Inputs ==
    TextInputs
    \cup { d.bytes : d \in NestedDocs }
    \cup MapItemInputs
    \cup { d.bytes : d \in IntCases }
    \cup { d.bytes : d \in BigIntCases }
    \cup { d.bytes : d \in StrCases }
    \cup { d.bytes : d \in KnownTagDocs }
    \cup { d.bytes : d \in RedecodedDocs }
    \cup { d.bytes : d \in TagFaultCases }
    \cup { d.bytes : d \in StreamCases }
    \cup TruncInputs

(***************************************************************************)
(* The specification: one caller at a time calls any of the five roots on  *)
(* any input.                                                              *)
(***************************************************************************)
Sequential == {"a"}

\* a caller that runs no call starts one
Call(c) ==
    /\ pc[c] = "idle"
    /\ \E p \in Inputs :
          \/ DecodeIfBinaryToString(c, p)
          \/ DecodeObjectToStr(c, p)
          \/ DecodeIfBinaryToBytes(c, p)
          \/ ManyObjCBOR2JSON(c, p)
          \/ CallCbor2JsonOneObject(c, p)

Next ==
    \E c \in Sequential :
        \/ Call(c)
        \/ moreBytesToRead(c)
        \/ cbor2JsonOneObject(c)
        \/ array2JsonLoop(c)
        \/ array2JsonNext(c)
        \/ map2JsonLoop(c)
        \/ map2JsonNext(c)
        \/ WriteNewline(c)
        \/ Unwind(c)
        \/ Finish(c)

Spec == Init /\ [][Next]_vars

\* the steps of a call that is running
Running(c) ==
    \/ moreBytesToRead(c)
    \/ cbor2JsonOneObject(c)
    \/ array2JsonLoop(c)
    \/ array2JsonNext(c)
    \/ map2JsonLoop(c)
    \/ map2JsonNext(c)
    \/ WriteNewline(c)
    \/ Unwind(c)
    \/ Finish(c)

Roots == PublicRoots \cup {"ManyObjCBOR2JSON", "cbor2JsonOneObject"}

\* the state in which caller "a" has just called the root `name` on p:
\* what Call leaves behind
Called(name, p) ==
    LET text == name \in PublicRoots /\ ~binaryFmt(p)
        at(x, none) == [c \in Callers |-> IF c = "a" THEN x ELSE none]
    IN /\ root = at(name, "none")
       /\ input = at(p, <<>>)
       /\ src = at(IF text THEN NoReader ELSE NewReader(p), NoReader)
       /\ dst = [c \in Callers |-> <<>>]
       /\ stack = [c \in Callers |-> <<>>]
       /\ pc = at(IF text THEN "returned"
                  ELSE IF name \in ManyRoots THEN "more" ELSE "object", "idle")
       /\ fault = [c \in Callers |-> NoFault]
       /\ err = [c \in Callers |-> NoFault]
       /\ ret = at(IF text THEN p ELSE <<>>, <<>>)
       /\ logged = [c \in Callers |-> <<>>]
       /\ decodeTimeZone = "nil"

CalledInit == \E name \in Roots, p \in Inputs : Called(name, p)

RunningNext == \E c \in Sequential : Running(c)

\* weak fairness of the step of the dispatcher, with its enabling condition
\* written out: cbor2JsonOneObject(c) can take a step, and one that changes
\* pc[c], exactly when pc[c] = "object"
FairDispatcher(c) ==
    []<>(pc[c] # "object") \/ []<><<cbor2JsonOneObject(c)>>_vars

\* a call under way: a running call that has a step to take takes it, the
\* goroutine that runs it being scheduled until the call returns or panics
Fairness ==
    \A c \in Sequential :
        /\ WF_vars(moreBytesToRead(c))
        /\ FairDispatcher(c)
        /\ WF_vars(array2JsonLoop(c))
        /\ WF_vars(array2JsonNext(c))
        /\ WF_vars(map2JsonLoop(c))
        /\ WF_vars(map2JsonNext(c))
        /\ WF_vars(WriteNewline(c))
        /\ WF_vars(Unwind(c))
        /\ WF_vars(Finish(c))

FairSpec == CalledInit /\ [][RunningNext]_vars /\ Fairness

(***************************************************************************)
(* Two callers at a time.  Each calls any of the five roots on one of a    *)
(* few records, and the steps of the two calls interleave in every way.    *)
(* A case is a record of one object: its bytes, the text written for it    *)
(* (all of it, or what is written until the fault) and the kind of the     *)
(* fault.                                                                  *)
(***************************************************************************)
Case(bytes, text, kind) == [bytes |-> bytes, text |-> text, kind |-> kind]

ConcurrentCases ==
    { Case(<<193, 24, 61>>,                            \* timestamp 61
           <<34, 49, 57, 55, 48, 45, 48, 49, 45, 48, 49, 84,
             48, 48, 58, 48, 49, 58, 48, 49, 90, 34>>, "none"),
      Case(<<191, 97, 97, 1, 255>>,                    \* {"a":1}
           <<123, 34, 97, 34, 58, 49, 125>>, "none"),
      Case(<<130, 1, 129, 1>>,                         \* [1,[1]]
           <<91, 49, 44, 91, 49, 93, 93>>, "none"),
      Case(<<129, 99, 97, 9, 255>>,                    \* ["a\t\ufffd"]
           <<91, 34, 97, 92, 116, 92, 117, 102, 102, 102, 100, 34, 93>>, "none"),
      Case(<<130, 1, 28>>, <<91, 49, 44>>, "error"),
      Case(<<159, 1>>, <<91, 49>>, "error"),
      Case(<<129, 91, 128, 0, 0, 0, 0, 0, 0, 0>>, <<91>>, "runtime") }

ConcurrentCall(c) ==
    /\ pc[c] = "idle"
    /\ \E d \in ConcurrentCases :
          \/ DecodeIfBinaryToString(c, d.bytes)
          \/ DecodeObjectToStr(c, d.bytes)
          \/ DecodeIfBinaryToBytes(c, d.bytes)
          \/ ManyObjCBOR2JSON(c, d.bytes)
          \/ CallCbor2JsonOneObject(c, d.bytes)

ConcurrentNext == \E c \in Callers : ConcurrentCall(c) \/ Running(c)

ConcurrentSpec == Init /\ [][ConcurrentNext]_vars

(***************************************************************************)
(* The claims.                                                             *)
(***************************************************************************)
\* the call of c decodes: it is past the test of the leading byte
Decoding(c) == src[c].made

\* the call of c is over: it returned or its panic left the root function
Over(c) == pc[c] \in {"returned", "panicked"}

\* C1: each public entry point returns an input that is empty or starts
\* with a byte <= 0x7F unchanged and runs no decode step on it: no cursor
\* is created, nothing is written, no fault is raised
C1_TextPassesThrough ==
    \A c \in Callers :
        (root[c] \in PublicRoots /\ (input[c] = <<>> \/ input[c][1] <= 127))
        => /\ pc[c] = "returned"
           /\ ret[c] = input[c]
           /\ src[c] = NoReader
           /\ dst[c] = <<>>
           /\ fault[c] = NoFault

C1_Witness ==
    \E c \in Callers :
        /\ root[c] = "DecodeIfBinaryToBytes"
        /\ input[c] = <<127, 255, 129, 1>>
        /\ ret[c] = <<127, 255, 129, 1>>
        /\ pc[c] = "returned"

\* a record that is one UTF-8 string item with an immediate length and a
\* payload of printable ASCII that needs no escape
IsPlainStringItem(p) ==
    /\ p # <<>>
    /\ p[1] >= majorTypeUtf8String /\ p[1] <= majorTypeUtf8String + 23
    /\ Len(p) = 1 + (p[1] - majorTypeUtf8String)
    /\ \A k \in 2..Len(p) : p[k] >= 32 /\ p[k] <= 126 /\ p[k] # 34 /\ p[k] # 92

Quoted(p) == <<34>> \o Tail(p) \o <<34>>

\* C2 as stated: DecodeObjectToStr returns the payload of such a record
\* between double quotes
C2_QuotedByDecodeObjectToStr ==
    \A c \in Callers :
        (root[c] = "DecodeObjectToStr" /\ IsPlainStringItem(input[c]) /\ Over(c))
        => pc[c] = "returned" /\ ret[c] = Quoted(input[c])

\* C2 amended: DecodeObjectToStr returns such a record unchanged and
\* without decoding it: the leading byte, major type 3 with an immediate
\* length, is at most 0x77 and so not above 0x7F
C2_ReturnedUnchanged ==
    \A c \in Callers :
        (root[c] = "DecodeObjectToStr" /\ IsPlainStringItem(input[c]))
        => /\ pc[c] = "returned"
           /\ ret[c] = input[c]
           /\ ~Decoding(c)

C2_Witness ==
    \E c \in Callers :
        /\ root[c] = "DecodeObjectToStr"
        /\ input[c] = <<100, 116, 101, 115, 116>>
        /\ pc[c] = "returned"
        /\ ret[c] = <<100, 116, 101, 115, 116>>

\* C3 as stated: on a binary input cut off inside a multi-byte field or
\* the payload it announces, each public entry point ends without a panic
\* leaving it, and with the malformed-input error reported
C3_TruncationIsReported ==
    \A c \in Callers :
        (root[c] \in PublicRoots /\ input[c] \in TruncInputs)
        => /\ pc[c] # "panicked"
           /\ pc[c] = "returned"
              => logged[c] # <<>> /\ logged[c][1].kind = "error"

\* C4 as stated: no input makes a call of ManyObjCBOR2JSON end in a panic
\* that leaves it; every fault comes back as the returned error
C4_EveryFaultIsReturned ==
    \A c \in Callers :
        (root[c] = "ManyObjCBOR2JSON" /\ fault[c] # NoFault /\ Over(c))
        => pc[c] = "returned" /\ err[c] = fault[c]

\* C5: at the fault boundary of ManyObjCBOR2JSON a runtime error goes on
\* as a panic and is never the returned error; a returned error is the
\* fault a decoder raised with an error value; a call does one or the other
C5_FaultTiersKeptApart ==
    \A c \in Callers :
        (root[c] \in ManyRoots /\ pc[c] \in {"finish", "returned", "panicked"})
        => /\ fault[c].kind = "runtime" => pc[c] = "panicked" /\ err[c] = NoFault
           /\ err[c] # NoFault => err[c] = fault[c] /\ fault[c].kind = "error"
           /\ pc[c] = "panicked" <=> fault[c].kind = "runtime"
           /\ ~(pc[c] = "panicked" /\ err[c] # NoFault)

C5_Witness ==
    \E c \in Callers :
        /\ root[c] = "DecodeIfBinaryToString"
        /\ fault[c] = RuntimeError("makeslice")
        /\ pc[c] = "panicked"
        /\ dst[c] = <<91>>

\* C6: during a call of ManyObjCBOR2JSON and at its end the sink holds the
\* records (text and one newline) of the objects decoded so far, in input
\* order: between two objects exactly the records of the objects consumed,
\* at a nil return the records of all objects of the input, at a fault the
\* records of the objects before the faulty one and then only the tokens
\* already written for it, without a newline
C6_SinkHoldsCompletedRecords ==
    \A c \in Callers :
        (root[c] \in ManyRoots /\ Decoding(c))
        => \A d \in StreamCases :
              d.bytes = input[c]
              => /\ IsPrefix(dst[c], Records(d.objs) \o d.partial)
                 /\ pc[c] \in {"more", "newline"}
                    => \E k \in 0..Len(d.objs) :
                          /\ src[c].r = Ends(d.objs)[k + 1]
                          /\ dst[c] = IF pc[c] = "more"
                                      THEN Records(SubSeq(d.objs, 1, k))
                                      ELSE Records(SubSeq(d.objs, 1, k - 1))
                                           \o d.objs[k].text
                 /\ (pc[c] = "returned" /\ err[c] = NoFault)
                    => ~d.faulty /\ dst[c] = Records(d.objs)
                 /\ (pc[c] = "returned" /\ err[c] # NoFault)
                    => d.faulty /\ dst[c] = Records(d.objs) \o d.partial
                 /\ pc[c] = "panicked"
                    => d.faulty /\ dst[c] = Records(d.objs) \o d.partial

C6_Witness ==
    \E c \in Callers :
        /\ root[c] = "ManyObjCBOR2JSON"
        /\ input[c] = <<1, 130, 1, 1, 130, 1, 28>>
        /\ pc[c] = "returned"
        /\ err[c] # NoFault
        /\ dst[c] = <<49, 10, 91, 49, 44, 49, 93, 10, 91, 49, 44>>

\* C7: a decode of well-formed arrays and maps nested in any mix, definite
\* or break-terminated, succeeds and writes the text with one bracket or
\* brace pair per array or map, nested as the items are, one comma between
\* two siblings and none before the first or after the last; an array or
\* map without elements is [] or {}
C7_BracketsAndCommas ==
    \A c \in Callers :
        (Decoding(c) /\ pc[c] \in {"panic", "finish", "returned", "panicked"})
        => \A d \in NestedDocs :
              d.bytes = input[c]
              => /\ fault[c] = NoFault
                 /\ pc[c] \in {"finish", "returned"}
                 /\ dst[c] = IF root[c] \in ManyRoots THEN d.text \o <<10>>
                                                      ELSE d.text

C7_Witness ==
    \E c \in Callers :
        /\ root[c] = "DecodeObjectToStr"
        /\ input[c] = MapDoc(FALSE, <<ArrayDoc(TRUE, <<OneDoc>>), OneDoc>>).bytes
        /\ pc[c] = "returned"
        /\ ret[c] = <<123, 34, 97, 34, 58, 91, 49, 93, 44,
                      34, 97, 34, 58, 49, 125>>

\* w * 10 + carry on a big-endian byte string, the overflow dropped
RECURSIVE TimesTenPlus(_, _)
TimesTenPlus(w, carry) ==
    IF w = <<>> THEN <<>>
    ELSE LET t == w[Len(w)] * 10 + carry
         IN TimesTenPlus(SubSeq(w, 1, Len(w) - 1), t \div 256) \o <<t % 256>>

\* the 64-bit value of a string of decimal digits
RECURSIVE ParseDecimal(_)
ParseDecimal(ds) ==
    IF ds = <<>> THEN W64(0)
    ELSE TimesTenPlus(ParseDecimal(SubSeq(ds, 1, Len(ds) - 1)), ds[Len(ds)] - 48)

\* ds is a decimal literal: digits only, at most 20 of them and no leading
\* zero but in the literal 0
IsDecimal(ds) ==
    /\ Len(ds) \in 1..20
    /\ \A k \in 1..Len(ds) : ds[k] \in 48..57
    /\ ds[1] = 48 => Len(ds) = 1

\* C8: for an integer n of 64 bits encoded as major type 0 (n >= 0) or as
\* major type 1 with value -1 - n (n < 0), immediate or with an extension of
\* 1, 2, 4 or 8 bytes, the dispatcher writes the decimal literal of n, with
\* a minus sign exactly when n < 0 and no leading zeros, and consumes
\* exactly the header and the extension
C8_IntegerLiteral ==
    \A c \in Callers :
        (root[c] = "cbor2JsonOneObject"
            /\ pc[c] \in {"panic", "finish", "returned", "panicked"})
        => \A d \in IntCases :
              d.bytes = input[c]
              => /\ fault[c] = NoFault
                 /\ src[c].r = Len(input[c])
                 /\ dst[c] # <<>>
                 /\ LET digits == IF d.neg THEN Tail(dst[c]) ELSE dst[c]
                    IN /\ d.neg => dst[c][1] = 45
                       /\ IsDecimal(digits)
                       /\ ParseDecimal(digits) = d.mag

C8_Witness ==
    \E c \in Callers :
        /\ root[c] = "cbor2JsonOneObject"
        /\ input[c] = <<59, 127, 255, 255, 255, 255, 255, 255, 255>>
        /\ pc[c] = "returned"
        /\ dst[c] = <<45, 57, 50, 50, 51, 51, 55, 50, 48, 51, 54, 56, 53, 52,
                      55, 55, 53, 56, 48, 56>>

\* C9: for a UTF-8 string item the dispatcher writes the payload between
\* double quotes with a tab as \t, a double quote as \", backslash,
\* backspace, form feed, newline and carriage return as their two-character
\* escapes, any other byte below 0x20 and 0x7F as \u00XX, a byte that starts
\* no valid UTF-8 sequence as the escape of U+FFFD, and every other character, the plain
\* prefix before the first escape included, as it is and in order
C9_StringEscapes ==
    \A c \in Callers :
        (root[c] = "cbor2JsonOneObject"
            /\ pc[c] \in {"panic", "finish", "returned", "panicked"})
        => \A d \in StrCases :
              d.bytes = input[c]
              => /\ fault[c] = NoFault
                 /\ dst[c] = d.text
                 /\ src[c].r = Len(input[c])

C9_Witness ==
    \E c \in Callers :
        /\ root[c] = "cbor2JsonOneObject"
        /\ input[c] = <<99, 9, 34, 255>>
        /\ pc[c] = "returned"
        /\ dst[c] = <<34, 92, 116, 92, 34, 92, 117, 102, 102, 102, 100, 34>>

\* C10: a tag item whose code is none of the recognised ones, and a
\* network-address tag whose byte string is not 4, 6 or 16 bytes long, make
\* the decode fault with an error, and the sink holds only what was written
\* before the item was reached: nothing of the item or of the value it
\* tags, and the decode does not go on past it
C10_UnknownTagFaults ==
    \A c \in Callers :
        Decoding(c)
        => \A d \in TagFaultCases :
              d.bytes = input[c]
              => /\ IsPrefix(dst[c], d.before)
                 /\ pc[c] # "newline"
                 /\ pc[c] \in {"panic", "finish", "returned", "panicked"}
                    => /\ fault[c].kind = "error"
                       /\ dst[c] = d.before
                       /\ root[c] \in ManyRoots /\ pc[c] # "panic"
                          => err[c] = fault[c]

C10_Witness ==
    \E c \in Callers :
        /\ input[c] = <<130, 1, 217, 1, 8, 1>>
        /\ pc[c] = "panic"
        /\ fault[c] = Errorf("tag type")
        /\ dst[c] = <<91, 49, 44>>

\* a step of the dispatcher faults or moves the cursor forward
DispatcherConsumes ==
    \A c \in Callers :
        pc[c] = "object" => pc'[c] = "panic" \/ src'[c].r > src[c].r

\* on every string s the escaper may be given, the index moves by one byte
\* at least and stays within s, also where s is not valid UTF-8
EscaperAdvances ==
    \A c \in Callers :
        pc[c] = "returned"
        => \A i \in 0..(Len(input[c]) - 1) :
              input[c][i + 1] >= 128
              => /\ DecodeRuneInString(input[c], i).size >= 1
                 /\ i + DecodeRuneInString(input[c], i).size <= Len(input[c])

\* C11: every call on a finite input ends, by a return or by a panic: a
\* dispatcher call faults or consumes a byte, the escaper moves on by a
\* byte at least in each iteration, and so the driver loop and the loops of
\* the arrays and maps come to an end, on malformed input as well
C11_EveryCallEnds ==
    /\ [][DispatcherConsumes]_vars
    /\ []EscaperAdvances
    /\ \A c \in Callers : (pc[c] # "idle") ~> Over(c)

C11_Witness ==
    \E c \in Callers :
        /\ root[c] = "ManyObjCBOR2JSON"
        /\ input[c] = <<159, 1>>
        /\ pc[c] = "returned"
        /\ err[c] = Errorf("eof")
        /\ dst[c] = <<91, 49>>

\* C13 as stated: for an integer item with an 8-byte extension whose
\* unsigned value is 2^63 or more, as for the smaller ones, the integer the
\* dispatcher writes is the unsigned value itself for major type 0, so not
\* negative, and is negative for major type 1: the accumulation in
\* decodeIntAdditionalType does not wrap
C13_SignFollowsMajorType ==
    \A c \in Callers :
        (root[c] = "cbor2JsonOneObject" /\ pc[c] = "returned")
        => \A d \in BigIntCases :
              d.bytes = input[c]
              => /\ decodeInteger(NewReader(input[c])).val =
                       (IF d.neg THEN MinusOneMinus(d.v) ELSE d.v)
                 /\ IsNeg(decodeInteger(NewReader(input[c])).val) <=> d.neg
                 /\ dst[c] # <<>> /\ (dst[c][1] = 45 <=> d.neg)
                 /\ ~d.neg => IsDecimal(dst[c]) /\ ParseDecimal(dst[c]) = d.v

\* the call of c has ended as a call of root[c] on the case d ends when it
\* runs alone
AsAlone(c, d) ==
    LET recovered == root[c] \in ManyRoots /\ d.kind # "runtime"
    IN /\ pc[c] = IF d.kind = "none" \/ recovered THEN "returned" ELSE "panicked"
       /\ fault[c].kind = d.kind
       /\ err[c] = IF recovered THEN fault[c] ELSE NoFault
       /\ dst[c] = IF d.kind = "none" /\ root[c] \in ManyRoots
                   THEN d.text \o <<10>> ELSE d.text
       /\ ret[c] = IF root[c] \in PublicRoots /\ pc[c] = "returned"
                   THEN dst[c] ELSE <<>>
       /\ src[c].buf = d.bytes

\* everything a call of c holds
Local(c) == <<root[c], input[c], src[c], dst[c], stack[c], pc[c], fault[c],
              err[c], ret[c], logged[c]>>

\* a step is the step of one caller and leaves what the others hold alone
OneCallerSteps == \E c \in Callers : \A o \in Callers \ {c} : Local(o)' = Local(o)

\* C12: two calls that run at the same time on their own inputs and sinks
\* share no state that a call changes: each has its own cursor, a step of
\* one changes nothing the other holds, no step writes the time zone, and
\* however the steps interleave each call ends with the output and the
\* error it ends with when it runs alone
C12_CallsDoNotInterfere ==
    /\ [](\A c \in Callers :
            Over(c) => \A d \in ConcurrentCases : d.bytes = input[c] => AsAlone(c, d))
    /\ [][OneCallerSteps]_vars
    /\ [][decodeTimeZone' = decodeTimeZone]_vars

C12_Witness ==
    /\ pc["a"] = "arrayNext" /\ input["a"] = <<130, 1, 129, 1>> /\ dst["a"] = <<91, 49>>
    /\ pc["b"] = "mapNext" /\ input["b"] = <<191, 97, 97, 1, 255>>
    /\ dst["b"] = <<123, 34, 97, 34>>

\* C14 as stated: when map2Json returns without a fault, for a definite
\* header with any count of items, odd ones included, and for an indefinite
\* map with the break marker anywhere, also directly after a key, every ':'
\* in the text is followed by a value before the next ',' or the closing '}'
C14_EveryColonHasItsValue ==
    \A c \in Callers :
        (Decoding(c) /\ pc[c] = "returned" /\ fault[c] = NoFault
            /\ input[c] \in MapItemInputs)
        => \A k \in 1..Len(dst[c]) :
              dst[c][k] = 58
              => k < Len(dst[c]) /\ dst[c][k + 1] \notin {44, 125}

\* no un-read of the cursor of a call has failed
NoUnreadFails == \A c \in Callers : ~src[c].unreadErr

\* the cursor moves back by one byte at most, and moreBytesToRead, when it
\* answers true, leaves the cursor where it found it
CursorKeepsPosition ==
    \A c \in Callers :
        /\ (pc[c] # "idle" /\ Decoding(c)) => src'[c].r >= src[c].r - 1
        /\ (pc[c] = "more" /\ pc'[c] = "object") => src'[c].r = src[c].r

\* the decoder that runs after the un-read has seen the whole item: the
\* text is that of the item and the cursor is behind the item
RedecodedWhole ==
    \A c \in Callers :
        (Decoding(c) /\ pc[c] \in {"panic", "finish", "returned", "panicked"})
        => \A d \in RedecodedDocs :
              d.bytes = input[c]
              => /\ fault[c] = NoFault
                 /\ src[c].r = Len(input[c])
                 /\ dst[c] = IF root[c] \in ManyRoots THEN d.text \o <<10>>
                                                      ELSE d.text

\* C15: on every decode path an un-read follows a successful read of one
\* byte of the same cursor and so never fails; the cursor never moves back
\* by more than one byte; after moreBytesToRead, decodeTimeStamp, the
\* embedded-JSON tag and decodeSimpleFloat for a float have looked at a
\* byte and put it back, the cursor is where it was and the decoder that
\* follows reads the item from its leading byte
C15_UnreadRestoresPosition ==
    /\ []NoUnreadFails
    /\ [][CursorKeepsPosition]_vars
    /\ []RedecodedWhole

C15_Witness ==
    \E c \in Callers :
        /\ root[c] = "ManyObjCBOR2JSON"
        /\ input[c] = <<193, 250, 64, 32, 0, 0>>
        /\ pc[c] = "returned"
        /\ ~src[c].unreadErr
        /\ src[c].r = 6
        /\ dst[c] = <<34, 49, 57, 55, 48, 45, 48, 49, 45, 48, 49, 84,
                      48, 48, 58, 48, 48, 58, 48, 50, 46, 53, 90, 34, 10>>

====
